---- MODULE Spec2Model ----
(***************************************************************************)
(* PyTuneGrab (src/pytunegrab/core.py): search, download and transcode of  *)
(* single items and playlists.                                             *)
(*                                                                         *)
(* A string (title, file name, path) is a sequence of tokens.  A token is  *)
(* one character of a title, a path separator, a directory name or a file  *)
(* extension.  The file system is a function from the paths of the files   *)
(* that exist to their content, and the set of the directories that exist. *)
(***************************************************************************)
EXTENDS Integers, Sequences, FiniteSets, TLC

VARIABLES
    fs,        \* local files: path -> content ("media", "mp3", "partial")
    dirs,      \* directories that exist
    strategy,  \* class of the strategy object: "AudioDownload" | "VideoDownload"
    queue,     \* DownloadStrategy._queue_for_download (titles of the items)
    call,      \* arguments of the running call, or of the last one
    mainpc,    \* position of the coroutine download / download_playlist
    task,      \* per queued item: state of its download_threads task
    thread,    \* per queued item: state of its asyncio.to_thread worker
    tres,      \* per queued item: value its worker or its task produced
    sem,       \* value of the asyncio.Semaphore of the collection run
    log,       \* one record per call that ended, in order
    faults,    \* failures of the remote side and of the codec so far
    left,      \* calls the user of the strategy object still makes
    conv,      \* the last direct call of convert_to_mp3 and its effect
    found      \* the last direct call of Searcher.search and its result

vars == <<fs, dirs, strategy, queue, call, mainpc, task, thread, tres, sem,
          log, faults, left, conv, found>>

-----------------------------------------------------------------------------
(* Bounds of the model.                                                    *)

MaxItems == 5       \* most members of a playlist
MaxCalls == 2       \* calls on one strategy object (SpecReuse)
MaxRequeue == 1     \* most items an object carries into its next run
MaxFaults == 1      \* failures of the remote side and of the codec (Spec)

(* max_concurrent_tasks = 4 in download_playlist.                          *)
max_concurrent_tasks == 4

-----------------------------------------------------------------------------
(* Strings and paths.                                                      *)

SEP == "/"

\* str.replace(old, new): every occurrence of old becomes new.
Replace(s, old, new) == [i \in DOMAIN s |-> IF s[i] = old THEN new ELSE s[i]]

\* index of the last separator of a path, 0 if there is none
LastSep(p) ==
    LET idx == {i \in DOMAIN p : p[i] = SEP}
    IN  IF idx = {} THEN 0 ELSE CHOOSE i \in idx : \A j \in idx : j <= i

\* Path(p).parent
Parent(p) == IF LastSep(p) = 0 THEN << >> ELSE SubSeq(p, 1, LastSep(p) - 1)

\* Path(p).name
Name(p) == SubSeq(p, LastSep(p) + 1, Len(p))

\* parent / name
Join(dir, name) == dir \o <<SEP>> \o name

\* two different paths of the same directory
Sibling(p, q) == p # q /\ Parent(p) = Parent(q)

-----------------------------------------------------------------------------
(* The file system.                                                        *)

NoFiles == << >>

Exists(f, p) == p \in DOMAIN f

Put(f, p, c) == [q \in (DOMAIN f) \cup {p} |-> IF q = p THEN c ELSE f[q]]

Remove(f, p) == [q \in (DOMAIN f) \ {p} |-> f[q]]

\* shutil.move(src, dst) of a file: dst is overwritten, src disappears
Move(f, src, dst) == IF src = dst THEN f ELSE Remove(Put(f, dst, f[src]), src)

-----------------------------------------------------------------------------
(* convert_to_mp3 (core.py 26-44).  The decoder and the encoder are        *)
(* external (moviepy): o is what they do in this call.                     *)
(*   "ok"           the clip opens and the output is written               *)
(*   "noaudio"      no decodable audio track                               *)
(*   "writefail"    write_audiofile raises before it creates the output    *)
(*   "writepartial" write_audiofile raises after it created the output     *)

Outcomes == {"ok", "noaudio", "writefail", "writepartial"}

Mp3Path(file_path) == Replace(file_path, ".mp4", ".mp3")

convert_to_mp3(f, d, file_path, o) ==
    IF ~Exists(f, file_path)
    THEN [raised |-> TRUE, value |-> <<"Arquivo inexistente">>, fs |-> f]
    ELSE IF o = "noaudio"
    THEN [raised |-> TRUE, value |-> <<"Nenhum audio encontrado">>, fs |-> f]
    ELSE LET mp3_path == Mp3Path(file_path)
         IN  IF Parent(mp3_path) \notin d \/ o = "writefail"
             THEN [raised |-> TRUE, value |-> <<"write_audiofile">>, fs |-> f]
             ELSE IF o = "writepartial"
             THEN [raised |-> TRUE, value |-> <<"write_audiofile">>,
                   fs |-> Put(f, mp3_path, "partial")]
             ELSE [raised |-> FALSE, value |-> mp3_path,
                   fs |-> Remove(Put(f, mp3_path, "mp3"), file_path)]

-----------------------------------------------------------------------------
(* slugify (python-slugify, called at core.py 48): lower case, every run   *)
(* of characters that are not letters or digits becomes one "-", and no    *)
(* "-" stays at either end.                                                *)

IsAlnum(c) == c \in {"S", "s", "x"}

Lower(c) == IF c = "S" THEN "s" ELSE c

\* the slug of title from index i on: letters and digits in lower case,
\* every run of other characters between two of them as one "-", the runs
\* at the ends as nothing
RECURSIVE SlugFrom(_, _)
SlugFrom(title, i) ==
    IF i > Len(title) THEN << >>
    ELSE (IF IsAlnum(title[i]) THEN <<Lower(title[i])>>
          ELSE IF /\ i > 1
                  /\ IsAlnum(title[i - 1])
                  /\ \E j \in (i + 1)..Len(title) : IsAlnum(title[j])
               THEN <<"-">>
               ELSE << >>)
         \o SlugFrom(title, i + 1)

slugify(title) == SlugFrom(title, 1)

-----------------------------------------------------------------------------
(* The remote side (pytube), as far as the program sees it.                *)

\* title of the k-th remote item: "S x!", "S xx!", ...
Title(k) == <<"S", " ">> \o [j \in 1..k |-> "x"] \o <<"!">>

\* iteration of Playlist(url) for a playlist of n members, in its order
Members(n) == [i \in 1..n |-> Title(i)]

\* Stream.default_filename: the title and the container's extension
DefaultFilename(title) == title \o <<".mp4">>

DOWNLOADS == <<"downloads">>

\* out_path arguments: None, or an explicit directory
NoPath == << >>
OutPaths == {NoPath, <<"music">>}

\* handle_download, core.py 122-123
OutDir(out_path) == IF out_path = NoPath THEN DOWNLOADS ELSE out_path

\* where Stream.download(out_path) puts the file of an item
TransferTarget(out_path, title) == Join(OutDir(out_path), DefaultFilename(title))

\* slugify_rename, core.py 47-53: the new path
SlugPath(title, audio_path) == Join(Parent(audio_path), slugify(title) \o <<".mp4">>)

-----------------------------------------------------------------------------
(* Stream.download(out_path, skip_existing=True), called at core.py 125.   *)
(* pytube creates the output directory, skips the transfer when the target *)
(* file is already complete, and returns the target path; ready tells      *)
(* whether the output directory was there when it was called.  x is what   *)
(* the remote side does in this call: "ok", "nostream" (no stream of the    *)
(* kind asked for), "xferfail" (the transfer raises).                      *)

Remote == {"ok", "nostream", "xferfail"}

stream_download(f, d, out_path, title, x) ==
    LET target == TransferTarget(out_path, title)
        d2 == d \cup {OutDir(out_path)}
        ready == OutDir(out_path) \in d
    IN  IF x = "xferfail"
        THEN [raised |-> TRUE, value |-> <<"transfer">>, fs |-> f, dirs |-> d2,
              transferred |-> FALSE, ready |-> ready]
        ELSE IF Exists(f, target) /\ f[target] = "media"
        THEN [raised |-> FALSE, value |-> target, fs |-> f, dirs |-> d2,
              transferred |-> FALSE, ready |-> ready]
        ELSE [raised |-> FALSE, value |-> target, fs |-> Put(f, target, "media"),
              dirs |-> d2, transferred |-> TRUE, ready |-> ready]

\* slugify_rename, core.py 47-53
slugify_rename(f, title, audio_path) ==
    LET new_path == SlugPath(title, audio_path)
    IN  IF ~Exists(f, audio_path)
        THEN [raised |-> TRUE, value |-> <<"FileNotFoundError">>, fs |-> f]
        ELSE [raised |-> FALSE, value |-> new_path,
              fs |-> Move(f, audio_path, new_path)]

\* handle_download, core.py 119-129
handle_download(f, d, title, out_path, do_slugify, x) ==
    LET t == stream_download(f, d, out_path, title, x)
        r == slugify_rename(t.fs, title, t.value)
    IN  IF t.raised \/ ~do_slugify THEN t
        ELSE [raised |-> r.raised, value |-> r.value, fs |-> r.fs,
              dirs |-> t.dirs, transferred |-> t.transferred,
              ready |-> t.ready]

\* _download_video_only / _download_audio_only, core.py 102-117
download_only(f, d, title, out_path, do_slugify, x) ==
    IF x = "nostream"
    THEN [raised |-> TRUE, value |-> <<"ValueError">>, fs |-> f, dirs |-> d,
          transferred |-> FALSE, ready |-> TRUE]
    ELSE handle_download(f, d, title, out_path, do_slugify, x)

-----------------------------------------------------------------------------
(* Calls.  A call is download(search, out_path, audio_only) or             *)
(* download_playlist(playlist_url, out_path, audio_only) on the strategy   *)
(* object, started by YTDownloader ("asyncio.run") or awaited by a caller  *)
(* on its own event loop ("await").  The input is a single item (a URL or  *)
(* a query whose first result is the item) or a playlist of n members.     *)

NoCall == [op |-> "none"]

Strategies == {"AudioDownload", "VideoDownload"}

\* twin: a playlist of two members that have the same title
Inputs ==
    [kind : {"item"}, n : 1..2, twin : {FALSE}]
    \cup [kind : {"playlist"}, n : 0..MaxItems, twin : {FALSE}]
    \cup [kind : {"playlist"}, n : {2}, twin : {TRUE}]

\* the members of the playlist that an input names, in its order
MembersOf(input) ==
    IF input.twin THEN <<Title(1), Title(1)>> ELSE Members(input.n)

\* YTDownloader.download_audio / download_video, core.py 200-207
YTCalls(s) ==
    [op : {"download"}, input : {i \in Inputs : i.kind = "item" \/ i.n > 0},
     out_path : {NoPath}, audio_only : {s = "AudioDownload"},
     via : {"asyncio.run"}]

\* direct calls of the two coroutines of a strategy object; a playlist is
\* downloaded to the default directory
DirectCalls(s) ==
    [op : {"download"}, input : {i \in Inputs : i.kind = "item"},
     out_path : OutPaths, audio_only : BOOLEAN, via : {"await"}]
    \cup
    [op : {"download"}, input : {i \in Inputs : i.kind = "playlist" /\ i.n > 0},
     out_path : {NoPath}, audio_only : BOOLEAN, via : {"await"}]
    \cup
    [op : {"download_playlist"}, input : {i \in Inputs : i.kind = "playlist"},
     out_path : {NoPath}, audio_only : BOOLEAN, via : {"await"}]

Calls(s) == YTCalls(s) \cup DirectCalls(s)

\* the calls made on an object that is used more than once: YTDownloader
\* makes a new strategy object for every call, so these are direct calls
ReuseCalls(s) ==
    {c \in DirectCalls(s) :
        /\ c.audio_only = (s = "AudioDownload")
        /\ c.out_path = NoPath
        /\ c.input.kind = "playlist" => c.op = "download_playlist"}

\* the audio_only that download_threads closes over (core.py 136, 150-155,
\* 192-193): download passes no audio_only to download_playlist, so the
\* default of the class applies
CollectionAudio(s, c) ==
    IF c.op = "download" THEN s = "AudioDownload" ELSE c.audio_only

\* do_slugify of a collection member (core.py 117, 165)
CollectionSlugify(s, c) == CollectionAudio(s, c)

\* what the caller receives when the code of DownloadStrategy returns v:
\* AudioDownload.download / download_playlist (core.py 188-193) await the
\* base coroutine and return nothing
Returned(s, v) ==
    IF s = "AudioDownload" THEN [kind |-> "none", v |-> << >>] ELSE v

-----------------------------------------------------------------------------
(* Classification (core.py 94-100, 135).  What Playlist(url).videos does   *)
(* with an input: "KeyError" (the input has no list parameter: a query or  *)
(* the locator of one item), "members" (a playlist with members), "empty"  *)
(* (a playlist without members), "error" (the lookup fails with any other  *)
(* exception: the playlist page cannot be fetched or read).                *)

Lookups == {"KeyError", "members", "empty", "error"}

Lookup(input) ==
    CASE input.kind = "item" -> "KeyError"
      [] input.kind = "unreachable" -> "error"
      [] input.kind = "playlist" /\ input.n > 0 -> "members"
      [] OTHER -> "empty"

\* is_playlist_url: True for a playlist with members, False on KeyError,
\* None (no return statement reached) for an empty playlist; an exception
\* other than KeyError is not caught
is_playlist_url(lookup) ==
    CASE lookup = "members" -> [raised |-> FALSE, value |-> "True"]
      [] lookup = "KeyError" -> [raised |-> FALSE, value |-> "False"]
      [] lookup = "empty" -> [raised |-> FALSE, value |-> "None"]
      [] OTHER -> [raised |-> TRUE, value |-> "lookup"]

\* the branch of download at core.py 135: None is falsy
ClassifiedAsCollection(input) ==
    LET k == is_playlist_url(Lookup(input))
    IN  ~k.raised /\ k.value = "True"

\* locators of a playlist that cannot be looked up, or that has no members
OtherInputs ==
    [kind : {"unreachable", "playlist"}, n : {0}, twin : {FALSE}]

OtherCalls(s) ==
    [op : {"download"}, input : OtherInputs, out_path : {NoPath},
     audio_only : BOOLEAN, via : {"await"}]

-----------------------------------------------------------------------------
(* DownloadStrategy.download for an input that is no playlist              *)
(* (core.py 131-148): everything runs inline on the caller.                *)

download_item(f, d, title, out_path, audio_only, x, o) ==
    LET d1 == d \cup {DOWNLOADS}
        a == download_only(f, d1, title, out_path, TRUE, x)
        c == convert_to_mp3(a.fs, a.dirs, a.value, o)
        v == download_only(f, d1, title, out_path, audio_only, x)
    IN  IF ~audio_only THEN v
        ELSE IF a.raised THEN a
        ELSE [raised |-> c.raised, value |-> c.value, fs |-> c.fs,
              dirs |-> a.dirs, transferred |-> a.transferred,
              ready |-> a.ready]

Finished(i) == task[i] \in {"done", "failed", "cancelled"}

ThreadActive(i) == thread[i] = "run"

\* nothing of an earlier call is still running
Quiescent ==
    /\ mainpc = "idle"
    /\ \A i \in DOMAIN task : Finished(i) /\ ~ThreadActive(i)

\* a failure of the remote side or of the codec is drawn only while the
\* bound on such failures allows one
Inject(outcome) ==
    IF outcome = "ok" THEN UNCHANGED faults
    ELSE faults < MaxFaults /\ faults' = faults + 1

DownloadSingle(c, x, o) ==
    /\ Quiescent
    /\ left > 0
    /\ left' = left - 1
    /\ c.op = "download" /\ c.input.kind = "item"
    /\ ~ClassifiedAsCollection(c.input)
    /\ Inject(IF x # "ok" THEN x ELSE IF c.audio_only THEN o ELSE "ok")
    /\ LET r == download_item(fs, dirs, Title(c.input.n), c.out_path,
                              c.audio_only, x, o)
           inner == IF r.raised THEN [kind |-> "error", v |-> r.value]
                    ELSE [kind |-> "path", v |-> r.value]
       IN  /\ fs' = r.fs
           /\ dirs' = r.dirs
           /\ call' = c
           /\ log' = Append(log,
                  [call |-> c,
                   outcome |-> IF r.raised THEN "raised" ELSE "returned",
                   inner |-> inner,
                   value |-> IF r.raised THEN inner
                             ELSE Returned(strategy, inner),
                   transferred |-> r.transferred,
                   ready |-> r.ready])
    /\ UNCHANGED <<strategy, queue, mainpc, task, thread, tres, sem, conv, found>>

\* download (core.py 131-140) of a locator that is not classified as a
\* collection and names no single item either: the exception of the lookup
\* leaves is_playlist_url and download; the locator of an empty playlist
\* goes to Searcher.search, where YouTube(url) finds no video id in it
DownloadUnclassified(c) ==
    /\ Quiescent
    /\ left > 0
    /\ left' = left - 1
    /\ c.op = "download" /\ c.input \in OtherInputs
    /\ ~ClassifiedAsCollection(c.input)
    /\ LET k == is_playlist_url(Lookup(c.input))
           inner == [kind |-> "error",
                     v |-> IF k.raised THEN <<k.value>> ELSE <<"RegexMatchError">>]
       IN  log' = Append(log, [call |-> c, outcome |-> "raised", inner |-> inner,
                               value |-> inner, transferred |-> FALSE,
                               ready |-> TRUE])
    /\ call' = c
    /\ dirs' = dirs \cup {DOWNLOADS}
    /\ UNCHANGED <<fs, strategy, queue, mainpc, task, thread, tres, sem, faults,
                   conv, found>>

-----------------------------------------------------------------------------
(* DownloadStrategy.download_playlist (core.py 150-182), entered directly  *)
(* or from download (core.py 132-137).                                     *)

IsCollection(c) == c.op # "none" /\ c.input.kind = "playlist"

Audio == CollectionAudio(strategy, call)

\* convert_to_mp3 has no await in it (core.py 26-44): from its call at
\* core.py 161 to its end it runs on the event loop, which can run nothing
\* else meanwhile
LoopFree == \A i \in DOMAIN task : task[i] # "converting"

\* the playlist setter (core.py 85-89) appends the members to the queue;
\* gather (core.py 175-177) makes one task per queued item
StartCollection(c) ==
    /\ Quiescent
    /\ left > 0
    /\ left' = left - 1
    /\ c.input.kind = "playlist"
    /\ c.op = "download" => ClassifiedAsCollection(c.input)
    /\ Len(queue) <= MaxRequeue
    /\ call' = c
    /\ dirs' = IF c.op = "download" THEN dirs \cup {DOWNLOADS} ELSE dirs
    /\ queue' = queue \o MembersOf(c.input)
    /\ task' = [i \in DOMAIN queue' |-> "new"]
    /\ thread' = [i \in DOMAIN queue' |-> "none"]
    /\ tres' = [i \in DOMAIN queue' |-> NoPath]
    /\ sem' = max_concurrent_tasks
    /\ mainpc' = "gather"
    /\ UNCHANGED <<fs, strategy, log, faults, conv, found>>

\* the event loop runs the first step of every task, in the order gather
\* made them, before anything else of the run: async with semaphore, then
\* asyncio.to_thread (core.py 156-166) for the tasks that get a slot, and
\* the others wait in the semaphore's queue
TasksStart ==
    /\ LoopFree
    /\ \E i \in DOMAIN task : task[i] = "new"
    /\ task' = [i \in DOMAIN task |->
                   IF i <= max_concurrent_tasks THEN "running" ELSE "waiting"]
    /\ thread' = [i \in DOMAIN task |->
                   IF i <= max_concurrent_tasks THEN "run" ELSE "none"]
    /\ sem' = IF Len(task) >= max_concurrent_tasks THEN 0
              ELSE max_concurrent_tasks - Len(task)
    /\ UNCHANGED <<fs, dirs, strategy, queue, call, mainpc, tres, log, faults, left, conv, found>>

\* a waiting task gets the slot that a release has freed: the waiters of
\* an asyncio.Semaphore are served first come, first served
Acquire(i) ==
    /\ LoopFree
    /\ task[i] = "waiting"
    /\ \A j \in DOMAIN task : task[j] = "waiting" => i <= j
    /\ sem > 0
    /\ sem' = sem - 1
    /\ task' = [task EXCEPT ![i] = "running"]
    /\ thread' = [thread EXCEPT ![i] = "run"]
    /\ UNCHANGED <<fs, dirs, strategy, queue, call, mainpc, tres, log, faults, left, conv, found>>

\* the worker thread runs _download_audio_only / _download_video_only
\* (core.py 158-166): stream selection, transfer and, with do_slugify, the
\* rename; its result or its exception waits for the task
ThreadRun(i, x) ==
    /\ thread[i] = "run"
    /\ Inject(x)
    /\ LET r == download_only(fs, dirs, queue[i], call.out_path,
                              CollectionSlugify(strategy, call), x)
       IN  /\ fs' = r.fs
           /\ dirs' = r.dirs
           /\ tres' = [tres EXCEPT ![i] = IF r.raised THEN NoPath ELSE r.value]
           /\ thread' = [thread EXCEPT ![i] = IF r.raised THEN "err" ELSE "ok"]
    /\ UNCHANGED <<strategy, queue, call, mainpc, task, sem, log, left, conv, found>>

\* the task resumes on the event loop with the worker's result: it raises
\* the worker's exception, returns the path (video), or calls
\* convert_to_mp3 (audio); leaving the async with block releases the slot
TaskResume(i) ==
    /\ LoopFree
    /\ task[i] = "running"
    /\ thread[i] \in {"ok", "err"}
    /\ IF thread[i] = "ok" /\ Audio
       THEN /\ task' = [task EXCEPT ![i] = "converting"]
            /\ UNCHANGED sem
       ELSE /\ task' = [task EXCEPT ![i] =
                   IF thread[i] = "err" THEN "failed" ELSE "done"]
            /\ sem' = sem + 1
    /\ UNCHANGED <<fs, dirs, strategy, queue, call, mainpc, thread, tres, log,
                   faults, left, conv, found>>

\* convert_to_mp3 comes to its end on the event loop (core.py 161-162); the
\* task returns the path or raises, and the slot is released
TaskConvert(i, o) ==
    /\ task[i] = "converting"
    /\ Inject(o)
    /\ LET cv == convert_to_mp3(fs, dirs, tres[i], o)
       IN  /\ task' = [task EXCEPT ![i] = IF cv.raised THEN "failed" ELSE "done"]
           /\ tres' = [tres EXCEPT ![i] = IF cv.raised THEN NoPath ELSE cv.value]
           /\ fs' = cv.fs
    /\ sem' = sem + 1
    /\ UNCHANGED <<dirs, strategy, queue, call, mainpc, thread, log, left, conv, found>>

\* Task.cancel() on every task that has not finished: a waiting task never
\* runs, a task that awaits its worker leaves the async with block (the
\* slot is released) and the worker thread, which cannot be interrupted,
\* runs on
Cancelled(t) ==
    [i \in DOMAIN t |->
        IF t[i] \in {"new", "waiting", "running"} THEN "cancelled" ELSE t[i]]

Holding == {i \in DOMAIN task : task[i] \in {"running", "converting"}}

\* gather resolves with the results by position (core.py 175-182)
GatherResults == [i \in DOMAIN queue |-> tres[i]]

EndCall(outcome, inner) ==
    log' = Append(log,
        [call |-> call, outcome |-> outcome, inner |-> inner,
         value |-> IF outcome = "returned" THEN Returned(strategy, inner)
                   ELSE inner,
         transferred |-> FALSE, ready |-> TRUE])

GatherReturn ==
    /\ LoopFree
    /\ mainpc = "gather"
    /\ \A i \in DOMAIN task : task[i] = "done"
    /\ EndCall("returned", [kind |-> "list", v |-> GatherResults])
    /\ mainpc' = "idle"
    /\ UNCHANGED <<fs, dirs, strategy, queue, call, task, thread, tres, sem,
                   faults, left, conv, found>>

\* gather without return_exceptions: the first exception of a task is
\* raised out of download_playlist, the other tasks are left running
GatherRaise ==
    /\ LoopFree
    /\ mainpc = "gather"
    /\ \E i \in DOMAIN task : task[i] = "failed"
    /\ EndCall("raised", [kind |-> "error", v |-> <<"item">>])
    /\ mainpc' = IF call.via = "asyncio.run" THEN "closing" ELSE "idle"
    /\ UNCHANGED <<fs, dirs, strategy, queue, call, task, thread, tres, sem,
                   faults, left, conv, found>>

\* asyncio.run (core.py 203, 207) cancels every task that is left when its
\* main coroutine has ended
RunCancelsAll ==
    /\ LoopFree
    /\ mainpc = "closing"
    /\ task' = Cancelled(task)
    /\ sem' = sem + Cardinality(Holding)
    /\ mainpc' = "idle"
    /\ UNCHANGED <<fs, dirs, strategy, queue, call, thread, tres, log, faults, left, conv, found>>

\* the caller cancels the running call (Task.cancel, a timeout, Ctrl-C):
\* gather cancels its tasks and download_playlist ends with CancelledError
Cancel ==
    /\ LoopFree
    /\ mainpc = "gather"
    /\ task' = Cancelled(task)
    /\ sem' = sem + Cardinality(Holding)
    /\ EndCall("cancelled", [kind |-> "error", v |-> <<"CancelledError">>])
    /\ mainpc' = "idle"
    /\ UNCHANGED <<fs, dirs, strategy, queue, call, thread, tres, faults,
                   left, conv, found>>

-----------------------------------------------------------------------------
NoConv == [called |-> FALSE]

NoSearch == [called |-> FALSE]

Init ==
    /\ fs = NoFiles
    /\ dirs = {}
    /\ strategy \in Strategies
    /\ queue = << >>
    /\ call = NoCall
    /\ mainpc = "idle"
    /\ task = << >>
    /\ thread = << >>
    /\ tres = << >>
    /\ sem = 0
    /\ log = << >>
    /\ left = 1
    /\ faults = 0
    /\ conv = NoConv
    /\ found = NoSearch

Next ==
    \/ \E c \in Calls(strategy), x \in Remote, o \in Outcomes :
          DownloadSingle(c, x, o)
    \/ \E c \in OtherCalls(strategy) : DownloadUnclassified(c)
    \/ \E c \in Calls(strategy) : StartCollection(c)
    \/ TasksStart
    \/ \E i \in DOMAIN task : Acquire(i)
    \/ \E i \in DOMAIN task, x \in Remote : ThreadRun(i, x)
    \/ \E i \in DOMAIN task : TaskResume(i)
    \/ \E i \in DOMAIN task, o \in Outcomes : TaskConvert(i, o)
    \/ GatherReturn
    \/ GatherRaise
    \/ RunCancelsAll
    \/ Cancel

\* one call on a fresh strategy object, with the failures of the remote
\* side and of the codec and with cancellation
Spec == Init /\ [][Next]_vars

\* the steps of a run: what the event loop and the worker threads do
Run ==
    \/ TasksStart
    \/ \E i \in DOMAIN task : Acquire(i)
    \/ \E i \in DOMAIN task, x \in Remote : ThreadRun(i, x)
    \/ \E i \in DOMAIN task : TaskResume(i)
    \/ \E i \in DOMAIN task, o \in Outcomes : TaskConvert(i, o)
    \/ GatherReturn
    \/ GatherRaise
    \/ RunCancelsAll

NextRun ==
    \/ \E c \in Calls(strategy), x \in Remote, o \in Outcomes :
          DownloadSingle(c, x, o)
    \/ \E c \in OtherCalls(strategy) : DownloadUnclassified(c)
    \/ \E c \in Calls(strategy) : StartCollection(c)
    \/ Run

\* the steps of the event loop alone
LoopStep ==
    \/ TasksStart
    \/ \E i \in DOMAIN task : Acquire(i)
    \/ \E i \in DOMAIN task : TaskResume(i)
    \/ \E i \in DOMAIN task, o \in Outcomes : TaskConvert(i, o)
    \/ GatherReturn
    \/ GatherRaise
    \/ RunCancelsAll

\* every worker thread comes to the end of its transfer: ThreadRun(i, x) is
\* enabled exactly while thread[i] = "run" and ends that, so this is weak
\* fairness of each worker's step
WorkersEnd ==
    \A i \in 1..MaxItems : []<>(i \in DOMAIN thread => thread[i] # "run")

\* one call that nobody cancels: the event loop runs every task that is
\* ready, and every transfer and every transcode comes to an end
SpecRun == Init /\ [][NextRun]_vars /\ WF_vars(LoopStep) /\ WorkersEnd

-----------------------------------------------------------------------------
(* A strategy object used for MaxCalls calls in sequence, each started     *)
(* when the one before has ended and nothing of it is running; no failure  *)
(* of the remote side or of the codec, no cancellation.                    *)

InitReuse ==
    /\ fs = NoFiles
    /\ dirs = {}
    /\ strategy \in Strategies
    /\ queue = << >>
    /\ call = NoCall
    /\ mainpc = "idle"
    /\ task = << >>
    /\ thread = << >>
    /\ tres = << >>
    /\ sem = 0
    /\ log = << >>
    /\ left = MaxCalls
    /\ faults = MaxFaults
    /\ conv = NoConv
    /\ found = NoSearch

NextReuse ==
    \/ \E c \in ReuseCalls(strategy) : DownloadSingle(c, "ok", "ok")
    \/ \E c \in ReuseCalls(strategy) : StartCollection(c)
    \/ TasksStart
    \/ \E i \in DOMAIN task : Acquire(i)
    \/ \E i \in DOMAIN task : ThreadRun(i, "ok")
    \/ \E i \in DOMAIN task : TaskResume(i)
    \/ \E i \in DOMAIN task : TaskConvert(i, "ok")
    \/ GatherReturn
    \/ GatherRaise

SpecReuse == InitReuse /\ [][NextReuse]_vars

-----------------------------------------------------------------------------
(* Direct calls of convert_to_mp3 on a file system that holds any of a few *)
(* files.                                                                  *)

SLUG == slugify(Title(1))

ConvSources ==
    {Join(DOWNLOADS, SLUG \o <<".mp4">>),
     Join(DOWNLOADS, SLUG \o <<".wav">>),
     Join(<<"rips.mp4">>, SLUG \o <<".mp4">>)}

ConvOutputs == {Mp3Path(p) : p \in ConvSources}

ConvFileSystems ==
    {[p \in S |-> IF p \in ConvSources THEN "media" ELSE "mp3"] :
        S \in SUBSET (ConvSources \cup {Join(DOWNLOADS, SLUG \o <<".mp3">>)})}

ConvDirs == {{DOWNLOADS, <<"rips.mp4">>}, {DOWNLOADS, <<"rips.mp4">>, <<"rips.mp3">>}}

InitConvert ==
    /\ fs \in ConvFileSystems
    /\ dirs \in ConvDirs
    /\ strategy = "AudioDownload"
    /\ queue = << >>
    /\ call = NoCall
    /\ mainpc = "idle"
    /\ task = << >>
    /\ thread = << >>
    /\ tres = << >>
    /\ sem = 0
    /\ log = << >>
    /\ left = 0
    /\ faults = 0
    /\ conv = NoConv
    /\ found = NoSearch

ConvertCall(p, o) ==
    /\ LET r == convert_to_mp3(fs, dirs, p, o)
       IN  /\ fs' = r.fs
           /\ conv' = [called |-> TRUE, path |-> p, before |-> fs,
                       raised |-> r.raised, value |-> r.value]
    /\ UNCHANGED <<dirs, strategy, queue, call, mainpc, task, thread, tres,
                   sem, log, faults, left, found>>

NextConvert == \E p \in ConvSources, o \in Outcomes : ConvertCall(p, o)

SpecConvert == InitConvert /\ [][NextConvert]_vars

-----------------------------------------------------------------------------
(* Searcher.search (core.py 62-73) and is_valid_url (core.py 16-23), on    *)
(* their own.  An input string is a sequence of tokens: "h" (a run of      *)
(* letters), ":", "/", "[".  urlsplit is urllib.parse.urlparse as far as   *)
(* the code reads its result: the scheme is what precedes the first ":"    *)
(* when that is letters only; the network location is what follows a       *)
(* leading "//" up to the next "/"; a "[" without "]" in it raises         *)
(* ValueError.                                                             *)

MaxUrlLen == 5
MaxResults == 2

UrlTokens == {"h", ":", "/", "["}

Queries == UNION {[1..n -> UrlTokens] : n \in 0..MaxUrlLen}

\* what Search(query).results can be: a sequence of candidates
Candidates == UNION {[1..n -> 1..2] : n \in 0..MaxResults}

\* index of the first token t of s from position i on, or Len(s) + 1
RECURSIVE Find(_, _, _)
Find(s, t, i) ==
    IF i > Len(s) THEN Len(s) + 1
    ELSE IF s[i] = t THEN i ELSE Find(s, t, i + 1)

urlsplit(url) ==
    LET colon == Find(url, ":", 1)
        hasScheme == /\ colon <= Len(url)
                     /\ colon > 1
                     /\ \A j \in 1..(colon - 1) : url[j] = "h"
        scheme == IF hasScheme THEN SubSeq(url, 1, colon - 1) ELSE << >>
        rest == IF hasScheme THEN SubSeq(url, colon + 1, Len(url)) ELSE url
        hasNetloc == Len(rest) >= 2 /\ rest[1] = "/" /\ rest[2] = "/"
        after == SubSeq(rest, 3, Len(rest))
        netloc == IF hasNetloc THEN SubSeq(after, 1, Find(after, "/", 1) - 1)
                  ELSE << >>
    IN  [raised |-> \E j \in DOMAIN netloc : netloc[j] = "[",
         scheme |-> scheme, netloc |-> netloc]

\* the host of a network location: what precedes the port's ":"
Hostname(netloc) == SubSeq(netloc, 1, Find(netloc, ":", 1) - 1)

\* a change of is_valid_url: the scheme alone decides
is_valid_url_scheme_only(input_string) ==
    LET result == urlsplit(input_string)
    IN  IF result.raised THEN FALSE ELSE result.scheme # << >>

\* is_valid_url, core.py 16-23
is_valid_url(input_string) ==
    LET result == urlsplit(input_string)
    IN  IF result.raised THEN FALSE
        ELSE result.scheme # << >> /\ result.netloc # << >>

NOT_FOUND == <<"Nenhum resultado encontrado">>

\* Searcher.search, core.py 62-73.  results is what the search would yield,
\* video whether YouTube(query) finds a video id in the locator.
search(query, results, video) ==
    IF is_valid_url(query)
    THEN IF video
         THEN [raised |-> FALSE, how |-> "direct", value |-> query]
         ELSE [raised |-> TRUE, how |-> "direct", value |-> <<"RegexMatchError">>]
    ELSE IF results # << >>
         THEN [raised |-> FALSE, how |-> "search", value |-> <<results[1]>>]
         ELSE [raised |-> TRUE, how |-> "search", value |-> NOT_FOUND]

InitSearch ==
    /\ fs = NoFiles
    /\ dirs = {}
    /\ strategy = "AudioDownload"
    /\ queue = << >>
    /\ call = NoCall
    /\ mainpc = "idle"
    /\ task = << >>
    /\ thread = << >>
    /\ tres = << >>
    /\ sem = 0
    /\ log = << >>
    /\ left = 0
    /\ faults = 0
    /\ conv = NoConv
    /\ found = NoSearch

\* one call of search is followed
SearchCall(query, results, video) ==
    /\ ~found.called
    /\ LET r == search(query, results, video)
       IN  found' = [called |-> TRUE, query |-> query, results |-> results,
                     raised |-> r.raised, how |-> r.how, value |-> r.value]
    /\ UNCHANGED <<fs, dirs, strategy, queue, call, mainpc, task, thread, tres,
                   sem, log, faults, left, conv>>

NextSearch ==
    \E query \in Queries, results \in Candidates, video \in BOOLEAN :
        SearchCall(query, results, video)

SpecSearch == InitSearch /\ [][NextSearch]_vars

-----------------------------------------------------------------------------
(* Properties.                                                             *)

LastLog == log[Len(log)]

\* the last call was a collection run and it has ended
RunEnded == IsCollection(call) /\ mainpc = "idle" /\ log # << >>

\* the last call was a single-item fetch (it ends within its step)
FetchEnded == call.op = "download" /\ call.input.kind = "item" /\ log # << >>

\* the path the pipeline produces for an item of this title
OutcomeOf(title, out_path, audio) ==
    IF audio
    THEN Mp3Path(SlugPath(title, TransferTarget(out_path, title)))
    ELSE TransferTarget(out_path, title)

\* items that have acquired a slot and whose transfer, rename or transcode
\* is not over
InFlight ==
    {i \in DOMAIN task : task[i] \in {"running", "converting"} \/ thread[i] = "run"}

\* C1: failure isolation.  When exactly one item k of a collection run
\* that nobody cancelled fails and every other item succeeds, the run has
\* not raised: it has returned one outcome per member, a success path at
\* every position but k.
C1_FailureIsolation ==
    (/\ RunEnded
     /\ LastLog.outcome # "cancelled"
     /\ \E k \in DOMAIN task :
           /\ task[k] = "failed"
           /\ \A i \in DOMAIN task \ {k} : task[i] = "done")
    => /\ LastLog.outcome = "returned"
       /\ LastLog.inner.kind = "list"
       /\ Len(LastLog.inner.v) = call.input.n
       /\ \A i \in DOMAIN task :
             task[i] = "done" => LastLog.inner.v[i] = tres[i]

\* C2: concurrency ceiling.  In every state at most max_concurrent_tasks
\* items are in flight, and every item in flight holds a slot of the
\* semaphore, one each.
C2_ConcurrencyCeiling ==
    /\ Cardinality(InFlight) <= max_concurrent_tasks
    /\ \A i \in InFlight : i \in Holding
    /\ IsCollection(call) => sem = max_concurrent_tasks - Cardinality(Holding)

\* the number alone: never more than max_concurrent_tasks items in flight
InFlightAtMostLimit == Cardinality(InFlight) <= max_concurrent_tasks

\* C3: order preservation.  When a run of a playlist of more members than
\* slots has returned, the i-th element of the returned sequence is the
\* outcome of the i-th member of that playlist.
C3_OrderPreservation ==
    (/\ RunEnded
     /\ LastLog.outcome = "returned"
     /\ call.input.n > max_concurrent_tasks)
    => \A i \in 1..call.input.n :
          /\ i \in DOMAIN LastLog.inner.v
          /\ LastLog.inner.v[i] =
                OutcomeOf(MembersOf(call.input)[i], call.out_path, Audio)

\* C4: a failing item does not cancel sibling work.  No item is ever
\* cancelled unless the caller cancelled the run.
C4_NoSiblingCancel ==
    \A i \in DOMAIN task :
        task[i] = "cancelled" => (log # << >> /\ LastLog.outcome = "cancelled")

\* C5: complete outcome list.  A collection run that returns gives its
\* caller a sequence of exactly one outcome per member of the playlist.
C5_CompleteOutcomeList ==
    (RunEnded /\ LastLog.outcome = "returned")
    => /\ LastLog.value.kind = "list"
       /\ Len(LastLog.value.v) = call.input.n

\* C6: a single-item fetch that succeeds returns the path of its output
\* file: the transcoded audio file (audio) or the materialized file (video).
C6_FetchReturnsPath ==
    (FetchEnded /\ LastLog.outcome = "returned")
    => /\ LastLog.value.kind = "path"
       /\ Exists(fs, LastLog.value.v)
       /\ fs[LastLog.value.v] = (IF call.audio_only THEN "mp3" ELSE "media")

\* C7: idempotent re-run.  Two single-item fetches in sequence with the same
\* input, mode and destination produce the same final path, and the second
\* one performs no transfer.
C7_IdempotentRerun ==
    (/\ Len(log) = 2
     /\ log[1].call = log[2].call
     /\ log[1].call.input.kind = "item"
     /\ log[1].outcome = "returned" /\ log[2].outcome = "returned")
    => /\ log[1].inner.v = log[2].inner.v
       /\ ~log[2].transferred

\* C8: transcode consumes its source.  After convert_to_mp3 has returned,
\* the source file is gone, and the returned path is a sibling of the
\* source (another path of the same directory) that holds the new audio
\* file; no other file has changed.
C8_TranscodeConsumes ==
    (conv.called /\ ~conv.raised)
    => /\ ~Exists(fs, conv.path)
       /\ Sibling(conv.value, conv.path)
       /\ Exists(fs, conv.value) /\ fs[conv.value] = "mp3"
       /\ \A p \in (DOMAIN fs \cup DOMAIN conv.before) \ {conv.path, conv.value} :
             Exists(fs, p) /\ Exists(conv.before, p) /\ fs[p] = conv.before[p]

\* C9: transcode failure leaves the state unchanged.  After convert_to_mp3
\* has raised, every file is as it was before the call: the source is
\* untouched and no output, complete or partial, has appeared.
C9_TranscodeFailureUnchanged ==
    (conv.called /\ conv.raised) => fs = conv.before

\* an item whose materialize-then-transcode sequence was cut short: its
\* task was cancelled after it got a slot, and the transcode that its
\* mode asks for never runs
SequenceCut(i) ==
    task[i] = "cancelled" /\ thread[i] \in {"run", "ok"} /\ Audio

\* C10: cancellation.  After the caller has cancelled a run, no item that
\* had a slot has had its sequence cut short, and every item that had no
\* slot has never been dispatched.
C10_Cancellation ==
    (RunEnded /\ LastLog.outcome = "cancelled")
    => \A i \in DOMAIN task :
          /\ ~SequenceCut(i)
          /\ thread[i] = "none" => task[i] = "cancelled"

\* C11: naming applies in both modes.  Every file that a single-item fetch
\* returns, and every file that a member of a collection run ends with, in
\* audio mode and in video mode, is named by the slug of the item's title:
\* <slug>.mp4 as materialized, <slug>.mp3 once transcoded.
C11_NamingBothModes ==
    /\ (FetchEnded /\ LastLog.outcome = "returned")
       => Name(LastLog.inner.v) \in
             {slugify(Title(call.input.n)) \o <<e>> : e \in {".mp4", ".mp3"}}
    /\ IsCollection(call)
       => \A i \in DOMAIN task :
             task[i] = "done"
             => Name(tres[i]) \in
                   {slugify(queue[i]) \o <<e>> : e \in {".mp4", ".mp3"}}

\* C12: collection classification.  A download call handles its input as a
\* collection exactly when the lookup yields members, and no failure of
\* the lookup reaches the caller of download: the input is then handled as
\* a single item.
C12_Classification ==
    \A k \in DOMAIN log :
        log[k].call.op = "download"
        => /\ (log[k].call.input.kind = "playlist" /\ log[k].call.input.n > 0)
              <=> ClassifiedAsCollection(log[k].call.input)
           /\ ~(log[k].inner.kind = "error" /\ log[k].inner.v = <<"lookup">>)

\* the input has a scheme and a network location, as urlparse splits it
HasSchemeAndNetloc(query) ==
    LET u == urlsplit(query)
    IN  ~u.raised /\ u.scheme # << >> /\ u.netloc # << >>

\* the input has a scheme and a host
HasSchemeAndHost(query) ==
    LET u == urlsplit(query)
    IN  ~u.raised /\ u.scheme # << >> /\ Hostname(u.netloc) # << >>

\* C13, as amended: Searcher.search resolves the input directly exactly
\* when it has a non-empty scheme and a non-empty network location (the
\* part between "//" and the next "/", port included); otherwise it
\* returns the first candidate of the search, and it fails with the
\* not-found error exactly when the search yields no candidate.
C13_IdentityResolution ==
    found.called
    => /\ (found.how = "direct") <=> HasSchemeAndNetloc(found.query)
       /\ (found.how = "search" /\ found.results # << >>)
          => (~found.raised /\ found.value = <<found.results[1]>>)
       /\ (found.raised /\ found.value = NOT_FOUND)
          <=> (~HasSchemeAndNetloc(found.query) /\ found.results = << >>)

\* a locator of full length was resolved directly
C13_Witness ==
    /\ found.called
    /\ found.how = "direct" /\ ~found.raised
    /\ Len(found.query) = MaxUrlLen

\* C13, as stated: the input is resolved directly exactly when it has a
\* non-empty scheme and a non-empty host.
C13_AsStated ==
    found.called
    => /\ (found.how = "direct") <=> HasSchemeAndHost(found.query)
       /\ (found.raised /\ found.value = NOT_FOUND)
          <=> (~HasSchemeAndHost(found.query) /\ found.results = << >>)

\* the local paths that the sequence of item i works on: the transfer's
\* target, the renamed file, the transcoded file
PathsOf(i) ==
    LET target == TransferTarget(call.out_path, queue[i])
        renamed == IF CollectionSlugify(strategy, call)
                   THEN SlugPath(queue[i], target) ELSE target
    IN  {target, renamed} \cup (IF Audio THEN {Mp3Path(renamed)} ELSE {})

\* C14: exclusive file ownership.  No two items of a collection run that
\* are in flight at the same time work on a common local path, also when
\* two members have the same title.
C14_ExclusiveOwnership ==
    IsCollection(call)
    => \A i, j \in InFlight : i # j => PathsOf(i) \cap PathsOf(j) = {}

\* C15: scheduling is never blocked by blocking work.  Whenever an item
\* waits for a slot that is free, or an item's transfer has finished and
\* its task is to go on, the event loop is free to run it: no transfer and
\* no transcode is occupying the loop.
C15_SchedulingNotBlocked ==
    \A j \in DOMAIN task :
        (\/ task[j] = "waiting" /\ sem > 0
         \/ task[j] = "running" /\ thread[j] \in {"ok", "err"})
        => LoopFree

\* C16: per-item step order by mode.  The mode given to the entry point
\* (audio_only) is the mode of every item: in audio mode an item that is
\* done has been transferred, renamed and then transcoded (its result is
\* the .mp3 beside the renamed file); in video mode it has been
\* transferred only, and the transcoder is never invoked.
C16_StepOrderByMode ==
    /\ (FetchEnded /\ LastLog.outcome = "returned")
       => LastLog.inner.v =
             OutcomeOf(Title(call.input.n), call.out_path, call.audio_only)
    /\ IsCollection(call)
       => \A i \in DOMAIN task :
             /\ task[i] = "converting" => call.audio_only
             /\ task[i] = "done"
                => tres[i] = OutcomeOf(queue[i], call.out_path, call.audio_only)

\* C17: the destination directory exists before transfer.  In every call
\* of download, with the default destination and with an explicit
\* out_path, the directory that a transfer writes into was there when the
\* transfer was started: download had created it.
C17_DestinationExists ==
    /\ \A k \in DOMAIN log : log[k].call.op = "download" => log[k].ready
    /\ (IsCollection(call) /\ call.op = "download")
       => (\A i \in DOMAIN task : thread[i] # "none"
              => OutDir(call.out_path) \in dirs)

\* C18: each call of download_playlist processes exactly the members of
\* the playlist given to that call, once each and in their order, also on
\* a strategy object that has run a collection before: while the call is
\* running, the queue its tasks were made from is that playlist's members.
C18_QueueIsCurrentCollection ==
    (IsCollection(call) /\ mainpc = "gather")
    => /\ queue = MembersOf(call.input)
       /\ Len(task) = Len(MembersOf(call.input))

\* the run is over: the call has ended, no task and no worker is left
RunOver ==
    /\ mainpc = "idle" /\ log # << >>
    /\ \A i \in DOMAIN task : Finished(i) /\ ~ThreadActive(i)

\* every collection run that nobody cancels comes to an end with all the
\* slots free
RunEndsWithSlotsFree ==
    (IsCollection(call) /\ mainpc = "gather")
    ~> (RunOver /\ sem = max_concurrent_tasks)

\* C19: termination.  A collection run whose transfers and transcodes all
\* come to an end, failing or not, leads to a state where every item has
\* had its slot and given it back, all max_concurrent_tasks slots are free
\* and download_playlist has returned.
C19_Termination ==
    (IsCollection(call) /\ mainpc = "gather")
    ~> (/\ RunOver
        /\ LastLog.outcome = "returned"
        /\ sem = max_concurrent_tasks
        /\ \A i \in DOMAIN task : task[i] \in {"done", "failed"})

====
